---- MODULE Spec2Model ----
(***************************************************************************)
(* Date extraction for English (lexnlp.extract.en.dates) and the feature   *)
(* extractor of the date classifier (lexnlp.extract.common.                *)
(* dates_classifier_model).                                                *)
(*                                                                         *)
(* Python strings are modelled as sequences of one-character strings, so   *)
(* that the regular expressions, replace(), strip(), split() and join()    *)
(* of the source are computed character by character.                      *)
(***************************************************************************)
EXTENDS Integers, Sequences, FiniteSets, TLC

VARIABLES
    \* get_raw_dates and get_date_annotations
    possible_dates,     \* the candidates of the locator, as the code changes them
    located,            \* the candidates as the locator produced them
    possible_matched,   \* the accept/reject history
    i,                  \* the index of the candidate of the for loop
    pc,                 \* "loop", "continue", "yield", "done" or "raised"
    cleaned,            \* date_string of the candidate when the filter chain ended
    attempts,           \* the calls of parse_date_string for the candidate
    merged,             \* per candidate processed, whether the day-of merge fired
    raw_dates,          \* what get_raw_dates has yielded
    scored,             \* the classifier's probability for each raw date
    annotations,        \* what get_date_annotations has yielded
    threshold,          \* the caller's threshold, in hundredths
    locale,             \* what the attribute Error of the locale argument is
    raised,             \* the exception that left get_raw_dates, "" if none
    \* check_date_parts_are_in_date(date, date_props) on its own
    date, date_props, checked, check_result,
    \* get_date_features(text, span[0], span[1], ...) on its own
    text, span, options, featured, char_vec

pvars == <<possible_dates, located, possible_matched, i, pc, cleaned, attempts,
           merged, raw_dates, scored, annotations, threshold, locale, raised>>

rvars == <<date, date_props, checked, check_result>>

fvars == <<text, span, options, featured, char_vec>>

vars == <<pvars, rvars, fvars>>

-----------------------------------------------------------------------------
(* Characters and strings *)

Digits == {"0", "1", "2", "3", "4", "5", "6", "7", "8", "9"}

UpperCase == {"A", "B", "C", "D", "E", "F", "G", "H", "I", "J", "K", "L", "M",
              "N", "O", "P", "Q", "R", "S", "T", "U", "V", "W", "X", "Y", "Z"}

LowerCase == {"a", "b", "c", "d", "e", "f", "g", "h", "i", "j", "k", "l", "m",
              "n", "o", "p", "q", "r", "s", "t", "u", "v", "w", "x", "y", "z"}

WhiteSpace == {" ", "\n", "\t"}

\* str.isdigit() of one character
IsDigit(c) == c \in Digits

\* [A-Za-z]
IsAlpha(c) == c \in UpperCase \cup LowerCase

\* \s of the regular expressions, and the characters str.strip() and
\* str.split() drop
IsSpace(c) == c \in WhiteSpace

\* str.lower() of one character
LowerChar(c) ==
    CASE c = "A" -> "a" [] c = "B" -> "b" [] c = "C" -> "c" [] c = "D" -> "d"
      [] c = "E" -> "e" [] c = "F" -> "f" [] c = "G" -> "g" [] c = "H" -> "h"
      [] c = "I" -> "i" [] c = "J" -> "j" [] c = "K" -> "k" [] c = "L" -> "l"
      [] c = "M" -> "m" [] c = "N" -> "n" [] c = "O" -> "o" [] c = "P" -> "p"
      [] c = "Q" -> "q" [] c = "R" -> "r" [] c = "S" -> "s" [] c = "T" -> "t"
      [] c = "U" -> "u" [] c = "V" -> "v" [] c = "W" -> "w" [] c = "X" -> "x"
      [] c = "Y" -> "y" [] c = "Z" -> "z" [] OTHER -> c

\* str.lower()
Lower(s) == [k \in 1..Len(s) |-> LowerChar(s[k])]

\* The Python string a character sequence stands for
RECURSIVE Str(_)
Str(s) == IF s = <<>> THEN "" ELSE s[1] \o Str(Tail(s))

\* The value of one decimal digit
DigitValue(c) ==
    CASE c = "0" -> 0 [] c = "1" -> 1 [] c = "2" -> 2 [] c = "3" -> 3
      [] c = "4" -> 4 [] c = "5" -> 5 [] c = "6" -> 6 [] c = "7" -> 7
      [] c = "8" -> 8 [] c = "9" -> 9

\* int(s) of a string of decimal digits
RECURSIVE ToInt(_)
ToInt(s) ==
    IF s = <<>> THEN 0
    ELSE 10 * ToInt(SubSeq(s, 1, Len(s) - 1)) + DigitValue(s[Len(s)])

\* [f(x) for x in s if keep(x)] for a sequence s
RECURSIVE SelectDigits(_)
SelectDigits(s) ==
    IF s = <<>> THEN <<>>
    ELSE (IF IsDigit(s[1]) THEN <<s[1]>> ELSE <<>>) \o SelectDigits(Tail(s))

\* The sequences of at most n elements of S
RECURSIVE SeqsUpTo(_, _)
SeqsUpTo(S, n) ==
    IF n = 0 THEN {<<>>}
    ELSE LET shorter == SeqsUpTo(S, n - 1) IN
         shorter \cup {Append(s, x) : s \in {t \in shorter : Len(t) = n - 1}, x \in S}

\* The set of the elements of a sequence
Range(s) == {s[k] : k \in 1..Len(s)}

-----------------------------------------------------------------------------
(* check_date_parts_are_in_date *)

\* Python's None, where an integer is expected
NoneVal == -1

\* MONTH_BY_NAME.get(month.lower())
MonthByName(month) ==
    LET m == Str(Lower(month)) IN
    CASE m \in {"january", "jan"} -> 1
      [] m \in {"february", "feb", "febr"} -> 2
      [] m \in {"march", "mar"} -> 3
      [] m \in {"april", "apr"} -> 4
      [] m \in {"may"} -> 5
      [] m \in {"june", "jun"} -> 6
      [] m \in {"july", "jul"} -> 7
      [] m \in {"august", "aug"} -> 8
      [] m \in {"september", "sep", "sept"} -> 9
      [] m \in {"october", "oct"} -> 10
      [] m \in {"november", "nov"} -> 11
      [] m \in {"december", "dec"} -> 12
      [] OTHER -> NoneVal

\* _ordinal_to_cardinal: the digits of s as an integer, None without a digit
OrdinalToCardinal(s) ==
    LET n == SelectDigits(s) IN IF n = <<>> THEN NoneVal ELSE ToInt(n)

\* units_of_time
UnitsOfTime == <<"year", "month", "day", "hour", "minute">>

\* date_values: the value of each unit of the date
DateValues(d) == [unit \in Range(UnitsOfTime) |-> d[unit]]

\* date_prop_digits
DatePropDigits(props) == [k \in 1..Len(props.digits) |-> ToInt(props.digits[k])]

\* date_prop_months
DatePropMonths(props) == [k \in 1..Len(props.months) |-> MonthByName(props.months[k])]

\* date_prop_days: the cardinals of the digit modifiers that are truthy
\* (neither None nor 0)
RECURSIVE DatePropDays(_)
DatePropDays(mods) ==
    IF mods = <<>> THEN <<>>
    ELSE LET day == OrdinalToCardinal(mods[1]) IN
         (IF day # NoneVal /\ day # 0 THEN <<day>> ELSE <<>>)
            \o DatePropDays(Tail(mods))

\* combined
Combined(props) ==
    DatePropDigits(props) \o DatePropMonths(props) \o DatePropDays(props.digits_modifier)

\* A mutation of ShortYear: the two-digit form of the year is never tried
ShortYearFullOnly(v) == v

\* short_year
ShortYear(v) == IF v > 1000 THEN v - 100 * (v \div 100) ELSE v

\* The loop over date_values.items(): acc is <<removeable, the keys of
\* reassembled_date>> after the first k units
RECURSIVE Reassemble(_, _, _)
Reassemble(d, combined, k) ==
    IF k = 0 THEN <<{}, {}>>
    ELSE LET acc == Reassemble(d, combined, k - 1)
             unit == UnitsOfTime[k]
             v == d[unit]
         IN  IF unit = "year" /\ ShortYear(v) \in combined
             THEN <<acc[1] \cup {ShortYear(v)}, acc[2] \cup {unit}>>
             ELSE IF v \in combined
                  THEN <<acc[1] \cup {v}, acc[2] \cup {unit}>>
                  ELSE acc

\* check_date_parts_are_in_date(date, date_props)
check_date_parts_are_in_date(d, props) ==
    LET date_prop_months == DatePropMonths(props)
        combined == Range(Combined(props))
        values == {d[unit] : unit \in Range(UnitsOfTime)}
        difference == combined \ values
        acc == Reassemble(d, combined, Len(UnitsOfTime))
        removeable == acc[1]
        diff_digits == difference \ removeable
        diff_units == Range(UnitsOfTime) \ acc[2]
    IN  IF date_prop_months # <<>> /\ d.month # 0
           /\ d.month \notin Range(date_prop_months)
        THEN FALSE
        ELSE ~ ((diff_units \cap {"year", "month", "day"}) # {} /\ diff_digits # {})

-----------------------------------------------------------------------------
(* The string operations of get_raw_dates *)

\* s.startswith(t)
StartsWith(s, t) == Len(t) <= Len(s) /\ SubSeq(s, 1, Len(t)) = t

\* t in s, for strings
Contains(s, t) == \E k \in 0..(Len(s) - Len(t)) : SubSeq(s, k + 1, k + Len(t)) = t

\* s.replace(t, ""): every occurrence of t, left to right, is removed
RECURSIVE RemoveAll(_, _)
RemoveAll(s, t) ==
    IF s = <<>> \/ t = <<>> THEN s
    ELSE IF StartsWith(s, t) THEN RemoveAll(SubSeq(s, Len(t) + 1, Len(s)), t)
         ELSE <<s[1]>> \o RemoveAll(Tail(s), t)

\* s.lstrip()
RECURSIVE LStrip(_)
LStrip(s) == IF s # <<>> /\ IsSpace(s[1]) THEN LStrip(Tail(s)) ELSE s

\* s.rstrip()
RECURSIVE RStrip(_)
RStrip(s) ==
    IF s # <<>> /\ IsSpace(s[Len(s)]) THEN RStrip(SubSeq(s, 1, Len(s) - 1)) ELSE s

\* s.strip()
Strip(s) == RStrip(LStrip(s))

\* The length of the first run of characters of s that are not white space
RECURSIVE WordLen(_)
WordLen(s) == IF s = <<>> \/ IsSpace(s[1]) THEN 0 ELSE 1 + WordLen(Tail(s))

\* s.split(): the words between runs of white space
RECURSIVE Split(_)
Split(s) ==
    LET t == LStrip(s)
        n == WordLen(t)
    IN  IF t = <<>> THEN <<>>
        ELSE <<SubSeq(t, 1, n)>> \o Split(SubSeq(t, n + 1, Len(t)))

\* ' '.join(tokens)
RECURSIVE Join(_)
Join(tokens) ==
    IF tokens = <<>> THEN <<>>
    ELSE IF Len(tokens) = 1 THEN tokens[1]
         ELSE tokens[1] \o <<" ">> \o Join(Tail(tokens))

\* "".join(tokens)
RECURSIVE Concat(_)
Concat(tokens) == IF tokens = <<>> THEN <<>> ELSE tokens[1] \o Concat(Tail(tokens))

\* list.count(x)
Count(list, x) == Cardinality({k \in 1..Len(list) : list[k] = x})

\* sorted(tokens, key=len, reverse=True): the longest first, tokens of one
\* length in the order of the list
RECURSIVE SortedByLenDesc(_)
SortedByLenDesc(tokens) ==
    IF tokens = <<>> THEN <<>>
    ELSE LET longest == CHOOSE k \in 1..Len(tokens) :
                            /\ \A j \in 1..Len(tokens) : Len(tokens[j]) <= Len(tokens[k])
                            /\ \A j \in 1..(k - 1) : Len(tokens[j]) < Len(tokens[k])
         IN  <<tokens[longest]>>
                \o SortedByLenDesc(SubSeq(tokens, 1, longest - 1)
                                     \o SubSeq(tokens, longest + 1, Len(tokens)))

\* The index after the run of white space of s that starts at index k
RECURSIVE SkipSpace(_, _)
SkipSpace(s, k) == IF k <= Len(s) /\ IsSpace(s[k]) THEN SkipSpace(s, k + 1) ELSE k

\* Whether the characters of s at the indexes from a to b are all digits
DigitsAt(s, a, b) == b <= Len(s) /\ \A k \in a..b : IsDigit(s[k])

\* re.match(r'\d{1,2}\s+\d{1,2}', s)
MatchOddDate(s) ==
    \E n \in {1, 2} :
        /\ DigitsAt(s, 1, n)
        /\ n + 1 <= Len(s) /\ IsSpace(s[n + 1])
        /\ LET k == SkipSpace(s, n + 1) IN k <= Len(s) /\ IsDigit(s[k])

\* re.match(r'\d{2}\.\d{2}\.\d{2,4}', s)
MatchDottedDate(s) ==
    /\ Len(s) >= 8
    /\ DigitsAt(s, 1, 2) /\ s[3] = "." /\ DigitsAt(s, 4, 5) /\ s[6] = "."
    /\ DigitsAt(s, 7, 8)

\* re.search(r'\d{2,4}\.\s*[A-Za-z]', s)
SearchNumberDotLetter(s) ==
    \E k \in 3..Len(s) :
        /\ s[k] = "." /\ IsDigit(s[k - 1]) /\ IsDigit(s[k - 2])
        /\ LET j == SkipSpace(s, k + 1) IN j <= Len(s) /\ IsAlpha(s[j])

-----------------------------------------------------------------------------
(* get_date_features *)

\* s.count(t): the occurrences of t in s that do not overlap, left to right
RECURSIVE CountSub(_, _)
CountSub(s, t) ==
    IF Len(s) < Len(t) THEN 0
    ELSE IF StartsWith(s, t) THEN 1 + CountSub(SubSeq(s, Len(t) + 1, Len(s)), t)
         ELSE CountSub(Tail(s), t)

\* The sum of the numbers f[k] for the keys k of the list keys
RECURSIVE SumOver(_, _)
SumOver(f, keys) == IF keys = <<>> THEN 0 ELSE f[keys[1]] + SumOver(f, Tail(keys))

\* The larger and the smaller of two numbers
Max(a, b) == IF a >= b THEN a ELSE b

Min(a, b) == IF a <= b THEN a ELSE b

\* feature_text: text[window_start:window_end].strip()
FeatureText(s, start, end, width) ==
    LET window_start == Max(0, start - width)
        window_end == Min(Len(s), end + width)
    IN  Strip(SubSeq(s, window_start + 1, window_end))

\* char_keys: f'char_{character}' for each character
CharKeys(characters) == [k \in 1..Len(characters) |-> "char_" \o characters[k]]

\* [''.join(s) for s in itertools.permutations(characters, 2)]: the pairs of
\* characters at two different places of the list, in the order of the list
RECURSIVE BigramSet(_, _)
BigramSet(characters, k) ==
    IF k > Len(characters) * Len(characters) THEN <<>>
    ELSE LET a == ((k - 1) \div Len(characters)) + 1
             b == ((k - 1) % Len(characters)) + 1
         IN  (IF a # b THEN <<<<characters[a], characters[b]>>>> ELSE <<>>)
                \o BigramSet(characters, k + 1)

\* bigram_keys
BigramKeys(bigrams) == [k \in 1..Len(bigrams) |-> "bigram_" \o Str(bigrams[k])]

\* A mutation of NormSum: one sum over the characters and the bigrams
NormSumJoint(counts, keys, all_keys) == SumOver(counts, all_keys)

\* char_sum and bigram_sum: the sum of the counts of one group of keys
NormSum(counts, keys, all_keys) == SumOver(counts, keys)

\* get_date_features(text, start_index, end_index, characters,
\* include_bigrams=bigrams, window=width, norm=normed), without the word
\* counts (count_words is False): a value is <<n, d>> for the number n / d
get_date_features(s, start, end, characters, bigrams, width, normed) ==
    LET feature_text == FeatureText(s, start, end, width)
        char_keys == CharKeys(characters)
        bigram_set == IF bigrams THEN BigramSet(characters, 1) ELSE <<>>
        bigram_keys == BigramKeys(bigram_set)
        all_keys == char_keys \o bigram_keys
        counts == [key \in Range(all_keys) |->
                      IF \E k \in 1..Len(char_keys) : char_keys[k] = key
                      THEN LET k == CHOOSE k \in 1..Len(char_keys) : char_keys[k] = key
                           IN  CountSub(feature_text, <<characters[k]>>)
                      ELSE LET k == CHOOSE k \in 1..Len(bigram_keys) : bigram_keys[k] = key
                           IN  CountSub(feature_text, bigram_set[k])]
        char_sum == NormSum(counts, char_keys, all_keys)
        bigram_sum == NormSum(counts, bigram_keys, all_keys)
    IN  [key \in Range(all_keys) |->
            IF normed /\ key \in Range(char_keys) /\ char_sum > 0
            THEN <<counts[key], char_sum>>
            ELSE IF normed /\ key \in Range(bigram_keys) /\ bigram_sum > 0
                 THEN <<counts[key], bigram_sum>>
                 ELSE <<counts[key], 1>>]

IdleFeatures ==
    /\ text = <<>>
    /\ span = <<0, 0>>
    /\ options = [include_bigrams |-> TRUE, window |-> 5, norm |-> TRUE]
    /\ char_vec = <<>>
    /\ featured = FALSE

-----------------------------------------------------------------------------
(* get_raw_dates: the filter chain *)

\* DATE_MAX_LENGTH
DATE_MAX_LENGTH == 40

\* "of" in date_props["extra_tokens"] or "OF" in date_props["extra_tokens"]
HasOfToken(props) ==
    \/ <<"o", "f">> \in Range(props.extra_tokens)
    \/ <<"O", "F">> \in Range(props.extra_tokens)

\* .replace("st", "").replace("nd", "").replace("rd", "").replace("th", "")
StripOrdinalSuffixes(modifier) ==
    RemoveAll(RemoveAll(RemoveAll(RemoveAll(modifier, <<"s", "t">>), <<"n", "d">>),
                        <<"r", "d">>), <<"t", "h">>)

\* The condition of the day-of merge for the candidate at index n (from 0):
\* history is possible_matched, whose entry for the candidate before it is
\* possible_matched[n - 1], the n-th of the sequence
DayOfMergeFires(pd, history, n) ==
    /\ HasOfToken(pd[n + 1].props)
    /\ n > 0
    /\ ~ history[n]
    /\ Len(pd[n].props.digits_modifier) = 1

\* A mutation of MergedDates: the digit modifiers of the candidate before are
\* added to the digits of the candidate, not to its digit modifiers
MergedDatesIntoDigits(pd, n) ==
    LET previous == pd[n].props.digits_modifier IN
    [pd EXCEPT ![n + 1].props.digits = @ \o previous,
               ![n].props.digits_modifier = SubSeq(previous, 1, Len(previous) - 1)]

\* possible_dates after the day-of merge for the candidate at index n: its
\* digits_modifier is extended by those of the candidate before it, whose
\* last digit modifier is popped
MergedDates(pd, n) ==
    LET previous == pd[n].props.digits_modifier IN
    [pd EXCEPT ![n + 1].props.digits_modifier = @ \o previous,
               ![n].props.digits_modifier = SubSeq(previous, 1, Len(previous) - 1)]

\* date_string after the day-of merge
MergedString(pd, n) ==
    LET previous == pd[n].props.digits_modifier IN
    StripOrdinalSuffixes(previous[Len(previous)]) \o pd[n + 1].string

num_dig_mod(props) == Len(props.digits_modifier)

num_dig(props) == Len(props.digits)

num_days(props) == Len(props.days)

num_month(props) == Len(props.months)

num_slash(props) == Count(props.delimiters, <<"/">>)

num_point(props) == Count(props.delimiters, <<".">>)

num_hyphen(props) == Count(props.delimiters, <<"-">>)

\* "".join(date_props["months"]).lower() == "may"
MonthsAreMay(props) == Lower(Concat(props.months)) = <<"m", "a", "y">>

\* Remove double months
DoubleMonths(props) == num_month(props) > 1

\* Remove wrong months like Dec*ided or Mar*tin
WrongMonth(date_string, props) ==
    /\ num_month(props) = 1
    /\ props.extra_tokens # <<>>
    /\ Contains(date_string,
                props.months[1] \o props.extra_tokens[Len(props.extra_tokens)])

\* A mutation of StrangeString: the check is left out
StrangeStringNever(props) == FALSE

\* Check strange strings
StrangeString(props) == num_dig_mod(props) > 0 /\ num_dig(props) = 0

\* Skip DOW only
DowOnly(props) == num_days(props) > 0 /\ num_dig(props) = 0

\* Skip DOM only
DomOnly(props) ==
    num_month(props) = 0 /\ num_dig_mod(props) = 0 /\ num_dig(props) <= 1

\* Skip odd date like "1 10"
OddDate(date_string) == MatchOddDate(date_string)

\* Skip floats
FloatLike(date_string, props) ==
    num_point(props) # 0 /\ num_month(props) = 0 /\ ~ MatchDottedDate(date_string)

\* Skip odd months from string like "Nil 62. Marquee"
OddMonth(date_string) == SearchNumberDotLetter(date_string)

\* Skip fractions
Fraction(props) ==
    (num_slash(props) = 1 \/ num_hyphen(props) = 1) /\ num_dig(props) > 2

\* Skip three-digit blocks and double zero years
TripleOrDoubleZero(props) ==
    \E k \in 1..Len(props.digits) :
        Len(props.digits[k]) = 3 \/ StartsWith(props.digits[k], <<"0", "0">>)

\* Skip "may" alone
MayAlone(props) ==
    num_dig(props) = 0 /\ num_days(props) = 0 /\ MonthsAreMay(props)

\* Skip cases like "13.2 may" or "12.12may"
MayWithDelimiters(props) ==
    /\ num_dig(props) > 0
    /\ num_point(props) + num_slash(props) + num_hyphen(props) > 0
    /\ MonthsAreMay(props)

\* The rejections before the cleanup, in the order of the code
RejectedBeforeCleanup(date_string, props) ==
    \/ DoubleMonths(props)
    \/ WrongMonth(date_string, props)
    \/ StrangeString(props)
    \/ DowOnly(props)
    \/ DomOnly(props)
    \/ OddDate(date_string)
    \/ FloatLike(date_string, props)
    \/ OddMonth(date_string)
    \/ Fraction(props)
    \/ TripleOrDoubleZero(props)
    \/ MayAlone(props)
    \/ MayWithDelimiters(props)

\* The loop of the cleanup over tokens, already sorted
RECURSIVE RemoveTokens(_, _)
RemoveTokens(date_string, tokens) ==
    IF tokens = <<>> THEN date_string
    ELSE IF Lower(tokens[1]) \in {<<"t", "o">>, <<"t">>}
         THEN RemoveTokens(date_string, Tail(tokens))
         ELSE RemoveTokens(RemoveAll(date_string, tokens[1]), Tail(tokens))

\* Cleanup: date_string without the extra tokens, stripped
Cleanup(date_string, props) ==
    Strip(RemoveTokens(date_string, SortedByLenDesc(props.extra_tokens)))

\* Skip strings too long
TooLong(date_string) == Len(date_string) > DATE_MAX_LENGTH

\* Skip numbers only
NumbersOnly(props) ==
    LET match_delims == Range(Concat(props.delimiters))
        bad_delims == {",", " ", "\n", "\t"}
    IN  Cardinality(match_delims \ bad_delims) = 0 /\ num_month(props) = 0

-----------------------------------------------------------------------------
(* get_raw_dates: parse and skip nones *)

\* A string that no date string equals
NoString == <<"<none>">>

\* The value of a call of parse_date_string that yields no date
NoDate == [year |-> 0, month |-> 0, day |-> 0, hour |-> 0, minute |-> 0, tz |-> "naive"]

\* The dates the parser may resolve a string to. tz is "naive" without a time
\* zone, "utc" with one and "out of range" with one whose isoformat() raises
\* ValueError
ResolvedDates ==
    {[year |-> 2019, month |-> 3, day |-> 5, hour |-> 0, minute |-> 0, tz |-> "naive"],
     [year |-> 2019, month |-> 3, day |-> 22, hour |-> 10, minute |-> 30, tz |-> "utc"],
     [year |-> 2019, month |-> 3, day |-> 5, hour |-> 0, minute |-> 0, tz |-> "out of range"]}

\* A mutation of TrimmedTokens: the two directions are exchanged
TrimmedTokensFrontFirst(tokens, cutter, direction) ==
    IF direction = 0
    THEN SubSeq(tokens, cutter + 1, Len(tokens))
    ELSE SubSeq(tokens, 1, Len(tokens) - cutter)

\* _date_string_tokens: date_string_tokens[cutter:] when direction is 1,
\* date_string_tokens[:-cutter] when it is 0
TrimmedTokens(tokens, cutter, direction) ==
    IF direction # 0
    THEN SubSeq(tokens, cutter + 1, Len(tokens))
    ELSE SubSeq(tokens, 1, Len(tokens) - cutter)

\* The string of the k-th pass of the two loops (k from 1): cutter runs over
\* range(len(date_string_tokens)) and direction over (0, 1)
AttemptString(date_string, k) ==
    LET tokens == Split(date_string)
        cutter == (k - 1) \div 2
        direction == (k - 1) % 2
    IN  IF cutter > 0 THEN Join(TrimmedTokens(tokens, cutter, direction))
        ELSE date_string

\* The number of passes of the two loops when no pass breaks out
MaxAttempts(date_string) == 2 * Len(Split(date_string))

\* date_finder.parse_date_string(date_string, date_props, locale=locale), a
\* function of the string: the parser raises on the string parser.bad,
\* answers parser.result on the string parser.hit and None on any other
parse_date_string(parser, s) ==
    IF s = parser.bad THEN [kind |-> "exception", value |-> NoDate]
    ELSE IF s = parser.hit THEN parser.result
         ELSE [kind |-> "none", value |-> NoDate]

\* The parsers tried for a date string: the string answered is any of the
\* strings attempted or none, the string raised on is the full string or none
\* (a parser that raises on the full string raises no locale.Error on another)
Parsers(date_string) ==
    LET n == MaxAttempts(date_string)
        strings == {AttemptString(date_string, k) : k \in 1..n}
        dates == {[kind |-> "date", value |-> d] : d \in ResolvedDates}
        results == dates \cup {[kind |-> "locale.Error", value |-> NoDate]}
    IN  {[hit |-> h, result |-> r, bad |-> NoString] : h \in strings, r \in results}
        \cup {[hit |-> h, result |-> r, bad |-> date_string] : h \in strings, r \in dates}
        \cup {[hit |-> NoString, result |-> [kind |-> "none", value |-> NoDate], bad |-> b] :
                b \in {NoString, date_string}}

\* What the try statement around parse_date_string does with an outcome.
\* The parameter locale of get_raw_dates hides the module locale, so
\* "except locale.Error" reads the attribute Error of the locale argument
\* when an exception is matched: an object without it raises AttributeError,
\* one whose Error is no exception class raises TypeError
AfterParse(outcome, locale_error) ==
    CASE outcome.kind = "date" -> "break"
      [] outcome.kind = "none" -> "continue"
      [] outcome.kind \in {"exception", "locale.Error"} /\ locale_error = "missing"
            -> "AttributeError"
      [] outcome.kind \in {"exception", "locale.Error"} /\ locale_error = "not a class"
            -> "TypeError"
      [] outcome.kind = "locale.Error" /\ locale_error = "exception class"
            -> "locale.Error"
      [] outcome.kind = "exception" /\ locale_error = "exception class"
            -> "continue"

\* The calls of parse_date_string from the k-th pass on, each with its string,
\* its outcome and what followed
RECURSIVE RetryLoop(_, _, _, _)
RetryLoop(date_string, parser, locale_error, k) ==
    IF k > MaxAttempts(date_string) THEN <<>>
    ELSE LET s == AttemptString(date_string, k)
             outcome == parse_date_string(parser, s)
             after == AfterParse(outcome, locale_error)
             call == [string |-> s, outcome |-> outcome.kind, after |-> after]
         IN  IF after = "continue"
             THEN <<call>> \o RetryLoop(date_string, parser, locale_error, k + 1)
             ELSE <<call>>

\* How the two loops ended: "break" with a date, "continue" when every pass
\* went on, or the exception raised
LoopEnd(calls) == IF calls = <<>> THEN "continue" ELSE calls[Len(calls)].after

\* date after the loops
LoopDate(parser, calls) ==
    IF LoopEnd(calls) = "break"
    THEN parse_date_string(parser, calls[Len(calls)].string).value
    ELSE NoDate

\* date.isoformat() raises ValueError
IsoFormatFails(d) == d.tz = "out of range"

\* date.date() for a datetime at midnight, the datetime itself otherwise
YieldedDate(d) ==
    IF d.hour = 0 /\ d.minute = 0
    THEN [type |-> "date", year |-> d.year, month |-> d.month, day |-> d.day]
    ELSE [type |-> "datetime", year |-> d.year, month |-> d.month, day |-> d.day,
          hour |-> d.hour, minute |-> d.minute, tz |-> d.tz]

-----------------------------------------------------------------------------
(* get_raw_dates and get_date_annotations: the candidates, the state, the steps *)

\* The longest list of candidates tried
MaxCandidates == 2

\* n characters that are no token of a date
Filler(n) == [k \in 1..n |-> "x"]

\* A month, a day and a year: three tokens
CandMar5 ==
    [string |-> <<"M", "a", "r", " ", "5", " ", "2", "0", "1", "9">>,
     props |-> [digits |-> <<<<"5">>, <<"2", "0", "1", "9">>>>, digits_modifier |-> <<>>, months |-> <<<<"M", "a", "r">>>>,
               days |-> <<>>, delimiters |-> <<<<" ">>, <<" ">>>>, extra_tokens |-> <<>>]]

\* Digits between slashes: one token
CandSlashes ==
    [string |-> <<"3", "/", "5", "/", "2", "0", "1", "9">>,
     props |-> [digits |-> <<<<"3">>, <<"5">>, <<"2", "0", "1", "9">>>>, digits_modifier |-> <<>>, months |-> <<>>,
               days |-> <<>>, delimiters |-> <<<<"/">>, <<"/">>>>, extra_tokens |-> <<>>]]

\* A trailing extra token that the cleanup keeps
CandMar5To ==
    [string |-> <<"M", "a", "r", " ", "5", " ", "t", "o">>,
     props |-> [digits |-> <<<<"5">>>>, digits_modifier |-> <<>>, months |-> <<<<"M", "a", "r">>>>,
               days |-> <<>>, delimiters |-> <<<<" ">>, <<" ">>>>, extra_tokens |-> <<<<"t", "o">>>>]]

\* A lone ordinal, as in "22nd day of March 2019"
CandDay22nd ==
    [string |-> <<"2", "2", "n", "d", " ", "d", "a", "y">>,
     props |-> [digits |-> <<>>, digits_modifier |-> <<<<"2", "2", "n", "d">>>>, months |-> <<>>,
               days |-> <<>>, delimiters |-> <<<<" ">>>>, extra_tokens |-> <<<<"d", "a", "y">>>>]]

\* "of" before a month and a year, as in "22nd day of Mar 2019"
CandOfMar ==
    [string |-> <<"o", "f", " ", "M", "a", "r", " ", "2", "0", "1", "9">>,
     props |-> [digits |-> <<<<"2", "0", "1", "9">>>>, digits_modifier |-> <<>>, months |-> <<<<"M", "a", "r">>>>,
               days |-> <<>>, delimiters |-> <<<<" ">>, <<" ">>>>, extra_tokens |-> <<<<"o", "f">>>>]]

\* "Of" before a month and a year, as in "22nd day Of Mar 2019"
CandTitleOfMar ==
    [string |-> <<"O", "f", " ", "M", "a", "r", " ", "2", "0", "1", "9">>,
     props |-> [digits |-> <<<<"2", "0", "1", "9">>>>, digits_modifier |-> <<>>, months |-> <<<<"M", "a", "r">>>>,
               days |-> <<>>, delimiters |-> <<<<" ">>, <<" ">>>>, extra_tokens |-> <<<<"O", "f">>>>]]

\* "OF" before a month and a year, as in "22nd day OF Mar 2019"
CandUpperOfMar ==
    [string |-> <<"O", "F", " ", "M", "a", "r", " ", "2", "0", "1", "9">>,
     props |-> [digits |-> <<<<"2", "0", "1", "9">>>>, digits_modifier |-> <<>>, months |-> <<<<"M", "a", "r">>>>,
               days |-> <<>>, delimiters |-> <<<<" ">>, <<" ">>>>, extra_tokens |-> <<<<"O", "F">>>>]]

\* An extra token and nothing else
CandOfOnly ==
    [string |-> <<"o", "f", " ">>,
     props |-> [digits |-> <<>>, digits_modifier |-> <<>>, months |-> <<>>,
               days |-> <<>>, delimiters |-> <<<<" ">>>>, extra_tokens |-> <<<<"o", "f">>>>]]

\* A lone ordinal before a slash
CandFirstSlash ==
    [string |-> <<"1", "s", "t", " ", "/">>,
     props |-> [digits |-> <<>>, digits_modifier |-> <<<<"1", "s", "t">>>>, months |-> <<>>,
               days |-> <<>>, delimiters |-> <<<<" ">>, <<"/">>>>, extra_tokens |-> <<>>]]

\* Two months
CandTwoMonths ==
    [string |-> <<"M", "a", "r", " ", "A", "p", "r", " ", "5">>,
     props |-> [digits |-> <<<<"5">>>>, digits_modifier |-> <<>>, months |-> <<<<"M", "a", "r">>, <<"A", "p", "r">>>>,
               days |-> <<>>, delimiters |-> <<<<" ">>, <<" ">>>>, extra_tokens |-> <<>>]]

\* A month inside a word
CandMart ==
    [string |-> <<"M", "a", "r", "t">>,
     props |-> [digits |-> <<>>, digits_modifier |-> <<>>, months |-> <<<<"M", "a", "r">>>>,
               days |-> <<>>, delimiters |-> <<>>, extra_tokens |-> <<<<"t">>>>]]

\* A day of week alone
CandMon ==
    [string |-> <<"M", "o", "n">>,
     props |-> [digits |-> <<>>, digits_modifier |-> <<>>, months |-> <<>>,
               days |-> <<<<"M", "o", "n">>>>, delimiters |-> <<>>, extra_tokens |-> <<>>]]

\* One digit group alone
CandFive ==
    [string |-> <<"5">>,
     props |-> [digits |-> <<<<"5">>>>, digits_modifier |-> <<>>, months |-> <<>>,
               days |-> <<>>, delimiters |-> <<>>, extra_tokens |-> <<>>]]

\* Two small numbers
CandOneTen ==
    [string |-> <<"1", " ", "1", "0">>,
     props |-> [digits |-> <<<<"1">>, <<"1", "0">>>>, digits_modifier |-> <<>>, months |-> <<>>,
               days |-> <<>>, delimiters |-> <<<<" ">>>>, extra_tokens |-> <<>>]]

\* A decimal number
CandFloat ==
    [string |-> <<"1", "3", ".", "2", "5">>,
     props |-> [digits |-> <<<<"1", "3">>, <<"2", "5">>>>, digits_modifier |-> <<>>, months |-> <<>>,
               days |-> <<>>, delimiters |-> <<<<".">>>>, extra_tokens |-> <<>>]]

\* A number, a dot and a word
CandNumDot ==
    [string |-> <<"6", "2", ".", " ", "M", "a", "r", " ", "5">>,
     props |-> [digits |-> <<<<"6", "2">>, <<"5">>>>, digits_modifier |-> <<>>, months |-> <<<<"M", "a", "r">>>>,
               days |-> <<>>, delimiters |-> <<<<".", " ">>, <<" ">>>>, extra_tokens |-> <<>>]]

\* A fraction before a year
CandFrac ==
    [string |-> <<"1", "/", "2", " ", "2", "0", "1", "9">>,
     props |-> [digits |-> <<<<"1">>, <<"2">>, <<"2", "0", "1", "9">>>>, digits_modifier |-> <<>>, months |-> <<>>,
               days |-> <<>>, delimiters |-> <<<<"/">>, <<" ">>>>, extra_tokens |-> <<>>]]

\* A three-digit group
CandTriple ==
    [string |-> <<"M", "a", "r", " ", "1", "2", "3">>,
     props |-> [digits |-> <<<<"1", "2", "3">>>>, digits_modifier |-> <<>>, months |-> <<<<"M", "a", "r">>>>,
               days |-> <<>>, delimiters |-> <<<<" ">>>>, extra_tokens |-> <<>>]]

\* "may" alone
CandMay ==
    [string |-> <<"m", "a", "y">>,
     props |-> [digits |-> <<>>, digits_modifier |-> <<>>, months |-> <<<<"m", "a", "y">>>>,
               days |-> <<>>, delimiters |-> <<>>, extra_tokens |-> <<>>]]

\* "may" after dotted numbers
CandMayDot ==
    [string |-> <<"7", ".", "7", ".", "1", "0", " ", "m", "a", "y">>,
     props |-> [digits |-> <<<<"7">>, <<"7">>, <<"1", "0">>>>, digits_modifier |-> <<>>, months |-> <<<<"m", "a", "y">>>>,
               days |-> <<>>, delimiters |-> <<<<".">>, <<".">>, <<" ">>>>, extra_tokens |-> <<>>]]

\* Numbers and commas only
CandNums ==
    [string |-> <<"5", ",", " ", "2", "0", "1", "9">>,
     props |-> [digits |-> <<<<"5">>, <<"2", "0", "1", "9">>>>, digits_modifier |-> <<>>, months |-> <<>>,
               days |-> <<>>, delimiters |-> <<<<",">>, <<" ">>>>, extra_tokens |-> <<>>]]

\* A month, a day, and a run of characters that exceeds DATE_MAX_LENGTH
CandLong ==
    [string |-> <<"M", "a", "r", " ", "5", " ">> \o Filler(DATE_MAX_LENGTH),
     props |-> [digits |-> <<<<"5">>>>, digits_modifier |-> <<>>, months |-> <<<<"M", "a", "r">>>>,
               days |-> <<>>, delimiters |-> <<<<" ">>, <<" ">>>>, extra_tokens |-> <<>>]]

\* What extract_date_strings may find at one place of the text
Candidates ==
    {CandMar5, CandSlashes, CandMar5To, CandDay22nd, CandOfMar,
     CandTitleOfMar, CandUpperOfMar, CandOfOnly, CandFirstSlash, CandTwoMonths,
     CandMart, CandMon, CandFive, CandOneTen, CandFloat,
     CandNumDot, CandFrac, CandTriple, CandMay, CandMayDot,
     CandNums, CandLong}

\* The candidates that the longer lists are made of
NeighbourCandidates == {CandMar5, CandDay22nd, CandOfMar}

\* The lists of candidates tried: every candidate alone, every candidate after
\* a lone ordinal, and every list of at most MaxCandidates of the candidates
\* above
CandidateLists ==
    SeqsUpTo(NeighbourCandidates, MaxCandidates)
        \cup {<<c>> : c \in Candidates}
        \cup {<<CandDay22nd, c>> : c \in Candidates}

\* The candidates of a text: those of cs, each with its span as index, one
\* after the other in the text
Located(cs) ==
    [k \in 1..Len(cs) |->
        [string |-> cs[k].string,
         index |-> <<50 * (k - 1), 50 * (k - 1) + Len(cs[k].string)>>,
         props |-> cs[k].props]]

\* The probabilities the classifier may answer, and the thresholds a caller
\* may pass, in hundredths
Probabilities == {49, 99}

Thresholds == {50, 99}

\* What the attribute Error of the locale argument may be
LocaleErrors == {"missing", "exception class", "not a class"}

IdleReconcile ==
    /\ date = NoDate
    /\ date_props = [digits |-> <<>>, digits_modifier |-> <<>>, months |-> <<>>]
    /\ checked = FALSE
    /\ check_result = FALSE

\* The state when get_date_annotations has called get_raw_dates and the for
\* loop over possible_dates is about to begin
Init ==
    /\ \E cs \in CandidateLists : possible_dates = Located(cs)
    /\ located = possible_dates
    /\ possible_matched = <<>>
    /\ i = 0
    /\ pc = "loop"
    /\ cleaned = <<>>
    /\ attempts = <<>>
    /\ merged = <<>>
    /\ raw_dates = <<>>
    /\ scored = <<>>
    /\ annotations = <<>>
    /\ threshold \in Thresholds
    /\ locale \in LocaleErrors
    /\ raised = ""
    /\ IdleReconcile
    /\ IdleFeatures

\* A mutation of Rejected: the entry of the history is forgotten
RejectedNotRecorded(history) == history

\* possible_matched.append(False)
Rejected(history) == Append(history, FALSE)

\* possible_matched.append(True)
Accepted(history) == Append(history, TRUE)

\* The candidate is skipped: "possible_matched.append(False); continue"
Skip(pd, fires, date_string, calls) ==
    /\ possible_dates' = pd
    /\ possible_matched' = Rejected(possible_matched)
    /\ pc' = "continue"
    /\ cleaned' = date_string
    /\ attempts' = calls
    /\ merged' = Append(merged, fires)
    /\ UNCHANGED <<located, i, raw_dates, scored, annotations, threshold, locale,
                   raised, rvars, fvars>>

\* A mutation of Index: the span of the candidate before, which the day-of
\* merge reads, is taken for the span of the candidate
IndexOfCandidateBefore(pd, n) == pd[IF n > 0 THEN n ELSE 1].index

\* index = possible_date[1] for the candidate at index n (from 0)
Index(pd, n) == pd[n + 1].index

\* The date is yielded with the index of the candidate, after
\* possible_matched.append(True)
Yield(pd, fires, date_string, calls, d) ==
    /\ possible_dates' = pd
    /\ possible_matched' = Accepted(possible_matched)
    /\ pc' = "yield"
    /\ cleaned' = date_string
    /\ attempts' = calls
    /\ merged' = Append(merged, fires)
    /\ raw_dates' = Append(raw_dates, [date |-> YieldedDate(d), index |-> Index(pd, i)])
    /\ UNCHANGED <<located, i, scored, annotations, threshold, locale, raised, rvars, fvars>>

\* An exception leaves the generator
Raise(pd, fires, date_string, calls, exception) ==
    /\ possible_dates' = pd
    /\ pc' = "raised"
    /\ raised' = exception
    /\ cleaned' = date_string
    /\ attempts' = calls
    /\ merged' = Append(merged, fires)
    /\ UNCHANGED <<located, possible_matched, i, raw_dates, scored, annotations,
                   threshold, locale, rvars, fvars>>

\* A mutation of Reconciled: the date is not checked against the properties
ReconciledAlways(d, props) == TRUE

\* "date and not check_date_parts_are_in_date(date, date_props)" is false
Reconciled(d, props) == check_date_parts_are_in_date(d, props)

\* One pass of the for loop over possible_dates, to its continue, its yield
\* or the exception that ends it
Iterate ==
    /\ pc = "loop"
    /\ i < Len(possible_dates)
    /\ LET fires == DayOfMergeFires(possible_dates, possible_matched, i)
           pd1 == IF fires THEN MergedDates(possible_dates, i) ELSE possible_dates
           string1 == IF fires THEN MergedString(possible_dates, i)
                      ELSE possible_dates[i + 1].string
           props1 == pd1[i + 1].props
           string2 == Cleanup(string1, props1)
           pd2 == [pd1 EXCEPT ![i + 1].props.extra_tokens = <<>>]
           props2 == pd2[i + 1].props
       IN  IF RejectedBeforeCleanup(string1, props1)
           THEN Skip(pd1, fires, string1, <<>>)
           ELSE IF TooLong(string2) \/ NumbersOnly(props2)
           THEN Skip(pd2, fires, string2, <<>>)
           ELSE \E parser \in Parsers(string2) :
                LET calls == RetryLoop(string2, parser, locale, 1)
                    end == LoopEnd(calls)
                    d == LoopDate(parser, calls)
                IN  CASE end \in {"AttributeError", "locale.Error"}
                            -> Raise(pd2, fires, string2, calls, end)
                      [] end = "TypeError"
                            -> Skip(pd2, fires, string2, calls)
                      [] end = "continue"
                            -> Skip(pd2, fires, string2, calls)
                      [] end = "break" /\ ~ Reconciled(d, props2)
                            -> Skip(pd2, fires, string2, calls)
                      [] end = "break" /\ Reconciled(d, props2) /\ IsoFormatFails(d)
                            -> Skip(pd2, fires, string2, calls)
                      [] end = "break" /\ Reconciled(d, props2) /\ ~ IsoFormatFails(d)
                            -> Yield(pd2, fires, string2, calls, d)

\* A mutation of PassesThreshold: every raw date is annotated
PassesThresholdAlways(probability, limit) == TRUE

\* date_score[0, 1] >= threshold
PassesThreshold(probability, limit) == probability >= limit

\* The body of the for loop of get_date_annotations for the raw date that
\* get_raw_dates has just yielded, and the request for the next one
Annotate ==
    /\ pc = "yield"
    /\ \E probability \in Probabilities :
         LET raw_date == raw_dates[Len(raw_dates)] IN
         /\ scored' = Append(scored, probability)
         /\ annotations' =
               IF PassesThreshold(probability, threshold)
               THEN Append(annotations, [coords |-> raw_date.index, date |-> raw_date.date,
                                         score |-> probability])
               ELSE annotations
    /\ pc' = "loop"
    /\ i' = i + 1
    /\ cleaned' = <<>>
    /\ attempts' = <<>>
    /\ UNCHANGED <<possible_dates, located, possible_matched, merged, raw_dates,
                   threshold, locale, raised, rvars, fvars>>

\* After a continue the for loop takes the next candidate
Continue ==
    /\ pc = "continue"
    /\ pc' = "loop"
    /\ i' = i + 1
    /\ cleaned' = <<>>
    /\ attempts' = <<>>
    /\ UNCHANGED <<possible_dates, located, possible_matched, merged, raw_dates,
                   scored, annotations, threshold, locale, raised, rvars, fvars>>

\* The for loop over possible_dates is exhausted
Finish ==
    /\ pc = "loop"
    /\ i = Len(possible_dates)
    /\ pc' = "done"
    /\ UNCHANGED <<possible_dates, located, possible_matched, i, cleaned, attempts,
                   merged, raw_dates, scored, annotations, threshold, locale, raised,
                   rvars, fvars>>

Next == Iterate \/ Continue \/ Annotate \/ Finish

Spec == Init /\ [][Next]_vars

IdlePipeline ==
    /\ possible_dates = <<>>
    /\ located = <<>>
    /\ possible_matched = <<>>
    /\ i = 0
    /\ pc = "done"
    /\ cleaned = <<>>
    /\ attempts = <<>>
    /\ merged = <<>>
    /\ raw_dates = <<>>
    /\ scored = <<>>
    /\ annotations = <<>>
    /\ threshold = 50
    /\ locale = "missing"
    /\ raised = ""

-----------------------------------------------------------------------------
(* The reconciler on its own: every date and property bag of a bounded set *)

\* The longest digits list of the property bags tried
MaxDigits == 3

RcDigitTokens ==
    {<<"2", "0", "2", "3">>, <<"7">>, <<"1", "5">>, <<"2", "3">>, <<"0">>}

RcMonthLists == {<<>>, <<<<"J", "u", "l", "y">>>>, <<<<"A", "U", "G">>>>, <<<<"J", "u", "l", "i">>>>}

RcModifierLists == {<<>>, <<<<"1", "5", "t", "h">>>>, <<<<"1", "6", "t", "h">>, <<"t", "h">>>>}

RcProps ==
    [digits : SeqsUpTo(RcDigitTokens, MaxDigits), digits_modifier : RcModifierLists,
     months : RcMonthLists]

RcDates ==
    [year : {2023, 923, 15}, month : {7, 8}, day : {15, 16}, hour : {0, 7},
     minute : {0, 15}]

InitReconcile ==
    /\ date \in RcDates
    /\ date_props \in RcProps
    /\ checked = FALSE
    /\ check_result = FALSE
    /\ IdlePipeline
    /\ IdleFeatures

Reconcile ==
    /\ ~ checked
    /\ checked' = TRUE
    /\ check_result' = check_date_parts_are_in_date(date, date_props)
    /\ UNCHANGED <<date, date_props, pvars, fvars>>

NextReconcile == Reconcile

SpecReconcile == InitReconcile /\ [][NextReconcile]_vars

-----------------------------------------------------------------------------
(* The feature extractor on its own: every text and span of a bounded set *)

\* The longest text tried
MaxText == 4

\* The characters of the texts tried, and those of them the features track
TextChars == {"1", " ", "x"}

Characters == <<"1", " ">>

\* The widths of the window tried: the default and a narrow one
Windows == {5, 1}

InitFeatures ==
    /\ text \in SeqsUpTo(TextChars, MaxText)
    /\ \E start \in 0..Len(text), end \in 0..Len(text) :
          start <= end /\ span = <<start, end>>
    /\ options \in [include_bigrams : BOOLEAN, window : Windows, norm : BOOLEAN]
    /\ char_vec = <<>>
    /\ featured = FALSE
    /\ IdlePipeline
    /\ IdleReconcile

Features ==
    /\ ~ featured
    /\ featured' = TRUE
    /\ char_vec' = get_date_features(text, span[1], span[2], Characters,
                                     options.include_bigrams, options.window,
                                     options.norm)
    /\ UNCHANGED <<text, span, options, pvars, rvars>>

NextFeatures == Features

SpecFeatures == InitFeatures /\ [][NextFeatures]_vars

-----------------------------------------------------------------------------
(* The claims *)

\* The number of candidates that a pass of the for loop has begun on; the
\* latest of them is located[Processed]
Processed == Len(merged)

\* tokens without its first k, and without its last k
DropFirst(tokens, k) == SubSeq(tokens, k + 1, Len(tokens))

DropLast(tokens, k) == SubSeq(tokens, 1, Len(tokens) - k)

\* No call of parse_date_string follows one that resolved a date
NoCallAfterSuccess ==
    \A j \in 1..(Len(attempts) - 1) : attempts[j].outcome # "date"

\* C1 as stated: after the two calls on the full cleaned string, the call
\* for trim length k on the string without its first k tokens comes before
\* the call on the string without its last k tokens, and no call follows the
\* first successful one
C1_FrontTrimBeforeBackTrim ==
    /\ \A j \in 3..Len(attempts) :
          LET k == (j - 1) \div 2 IN
          attempts[j].string =
              IF j % 2 = 1 THEN Join(DropFirst(Split(cleaned), k))
              ELSE Join(DropLast(Split(cleaned), k))
    /\ NoCallAfterSuccess

\* C1 as amended: the full cleaned string is tried (twice); then for every
\* trim length k from 1 to len(tokens) - 1 the string without its last k
\* tokens is tried before the string without its first k tokens; no call
\* follows the first successful one
C1_BackTrimBeforeFrontTrim ==
    /\ \A j \in 1..Len(attempts) :
          LET k == (j - 1) \div 2 IN
          /\ k <= Len(Split(cleaned)) - 1
          /\ attempts[j].string =
                IF k = 0 THEN cleaned
                ELSE IF j % 2 = 1 THEN Join(DropLast(Split(cleaned), k))
                     ELSE Join(DropFirst(Split(cleaned), k))
    /\ NoCallAfterSuccess

\* A candidate of three tokens is resolved on the string without its first
\* two tokens, after the five calls before it resolved nothing
C1_Witness ==
    /\ Len(attempts) = 6
    /\ attempts[6].outcome = "date"
    /\ attempts[5].string # attempts[6].string
    /\ attempts[3].string # attempts[4].string

\* C2: a call of parse_date_string that raises an exception other than
\* locale.Error counts as no match: the retry loop goes on, no exception
\* leaves get_raw_dates, and a candidate that no call resolves is recorded
\* as rejected and followed by the next candidate
C2_OtherExceptionsAreNoMatch ==
    (\E j \in 1..Len(attempts) : attempts[j].outcome = "exception")
        => /\ \A j \in 1..Len(attempts) :
                 attempts[j].outcome = "exception" => attempts[j].after = "continue"
           /\ pc # "raised"
           /\ raised = ""
           /\ (\A j \in 1..Len(attempts) : attempts[j].outcome # "date")
                 => /\ pc = "continue"
                    /\ Len(attempts) = MaxAttempts(cleaned)
                    /\ Len(possible_matched) = Processed
                    /\ ~ possible_matched[Processed]

\* The literal values of a candidate: its digits, the numbers of its months
\* and its ordinal days
LiteralValues(props) ==
    {ToInt(props.digits[k]) : k \in 1..Len(props.digits)}
        \cup {MonthByName(props.months[k]) : k \in 1..Len(props.months)}
        \cup ({OrdinalToCardinal(props.digits_modifier[k]) :
                  k \in 1..Len(props.digits_modifier)} \ {0, NoneVal})

\* The last two digits of a year
LastTwoDigits(year) == year % 100

\* Whether the year, the month or the day of d is unmatched by the literals
\* L: a year above 1000 is matched by its full value or its last two digits
UnmatchedDatePart(d, L) ==
    \/ ~ (d.year \in L \/ (d.year > 1000 /\ LastTwoDigits(d.year) \in L))
    \/ d.month \notin L
    \/ d.day \notin L

\* Whether a literal of L is matched by no unit of d
UnmatchedLiteral(d, L) ==
    \E v \in L :
        /\ v \notin {d.year, d.month, d.day, d.hour, d.minute}
        /\ ~ (d.year > 1000 /\ v = LastTwoDigits(d.year))

\* (a) of C3: a month token, and a resolved month that is non-zero and not
\* among the candidate's month numbers
MonthContradicted(d, props) ==
    /\ props.months # <<>>
    /\ d.month # 0
    /\ \A k \in 1..Len(props.months) : MonthByName(props.months[k]) # d.month

Digits2023_7_15 == <<<<"2", "0", "2", "3">>, <<"7">>, <<"1", "5">>>>

\* C3: check_date_parts_are_in_date returns False exactly when (a) holds or
\* (b) a part among year, month, day is unmatched and a literal value is left
\* unmatched; for the digits 2023, 7, 15 it returns True for 2023-07-15 and
\* False for 2023-07-16 (dates at midnight)
C3_ReconcilerCharacterised ==
    checked =>
        /\ check_result =
              ~ (\/ MonthContradicted(date, date_props)
                 \/ /\ UnmatchedDatePart(date, LiteralValues(date_props))
                    /\ UnmatchedLiteral(date, LiteralValues(date_props)))
        /\ (/\ date_props.digits = Digits2023_7_15
            /\ date_props.months = <<>> /\ date_props.digits_modifier = <<>>
            /\ date.year = 2023 /\ date.month = 7
            /\ date.hour = 0 /\ date.minute = 0)
               => check_result = (date.day = 15)

\* The digits 2023, 7, 15 are checked against 2023-07-16, and rejected
C3_Witness ==
    /\ checked
    /\ date_props.digits = Digits2023_7_15
    /\ date_props.months = <<>> /\ date_props.digits_modifier = <<>>
    /\ date.year = 2023 /\ date.month = 7 /\ date.day = 16
    /\ date.hour = 0 /\ date.minute = 0
    /\ ~ check_result

\* Whether an extra token of the candidate is "of" in any letter case
HasOfInAnyCase(props) ==
    \E k \in 1..Len(props.extra_tokens) : Lower(props.extra_tokens[k]) = <<"o", "f">>

\* C4: whenever the extra tokens of a candidate hold "of" in any letter case,
\* the candidate before it was rejected and has exactly one digit modifier,
\* the day-of merge fires (a merge that fired has emptied the digit modifiers
\* of the candidate before, one that did not has left them as they were)
C4_MergeForOfInAnyCase ==
    \A n \in 2..Processed :
        (/\ HasOfInAnyCase(located[n].props)
         /\ ~ possible_matched[n - 1]
         /\ Len(possible_dates[n - 1].props.digits_modifier) = 1)
            => merged[n]

\* C5 as stated: digits, digits_modifier, months, days and delimiters of
\* every candidate stay as the locator produced them
C5_OnlyStringAndExtraTokensChange ==
    \A k \in 1..Len(possible_dates) :
        /\ possible_dates[k].props.digits = located[k].props.digits
        /\ possible_dates[k].props.digits_modifier = located[k].props.digits_modifier
        /\ possible_dates[k].props.months = located[k].props.months
        /\ possible_dates[k].props.days = located[k].props.days
        /\ possible_dates[k].props.delimiters = located[k].props.delimiters

\* Whether a day-of merge fired for candidate k or for the one after it
MergeInvolved(k) ==
    \/ k <= Processed /\ merged[k]
    \/ k + 1 <= Processed /\ merged[k + 1]

\* C5 as amended: digits, months, days and delimiters of every candidate stay
\* as the locator produced them, extra_tokens stays or is emptied, and
\* digits_modifier stays for every candidate that no day-of merge involved
C5_MergeAlsoChangesDigitModifiers ==
    /\ Len(possible_dates) = Len(located)
    /\ \A k \in 1..Len(possible_dates) :
        /\ possible_dates[k].props.digits = located[k].props.digits
        /\ possible_dates[k].props.months = located[k].props.months
        /\ possible_dates[k].props.days = located[k].props.days
        /\ possible_dates[k].props.delimiters = located[k].props.delimiters
        /\ possible_dates[k].props.extra_tokens \in {located[k].props.extra_tokens, <<>>}
        /\ possible_dates[k].index = located[k].index
        /\ MergeInvolved(k)
              \/ possible_dates[k].props.digits_modifier = located[k].props.digits_modifier

\* A day-of merge has moved the digit modifier of a candidate to the next
\* one, whose extra tokens the cleanup has emptied
C5_Witness ==
    \E k \in 2..Processed :
        /\ merged[k]
        /\ possible_dates[k].props.digits_modifier # located[k].props.digits_modifier
        /\ possible_dates[k - 1].props.digits_modifier = <<>>
        /\ located[k].props.extra_tokens # <<>>
        /\ possible_dates[k].props.extra_tokens = <<>>

\* The datetime that a yielded value stands for: a date is a datetime at
\* midnight
AsDatetime(v) ==
    IF v.type = "date"
    THEN [year |-> v.year, month |-> v.month, day |-> v.day, hour |-> 0, minute |-> 0]
    ELSE [year |-> v.year, month |-> v.month, day |-> v.day, hour |-> v.hour,
          minute |-> v.minute]

\* The candidate that a span belongs to
CandidateAt(index) == CHOOSE k \in 1..Len(possible_dates) : possible_dates[k].index = index

\* C6: every date yielded satisfies check_date_parts_are_in_date with the
\* properties of its candidate
C6_YieldedDatesAreReconciled ==
    \A r \in 1..Len(raw_dates) :
        /\ \E k \in 1..Len(possible_dates) : possible_dates[k].index = raw_dates[r].index
        /\ check_date_parts_are_in_date(
               AsDatetime(raw_dates[r].date),
               possible_dates[CandidateAt(raw_dates[r].index)].props)

\* A date is yielded for a candidate that the day-of merge changed, resolved
\* only after a trim
C6_Witness ==
    /\ pc = "yield"
    /\ merged[Processed]
    /\ Len(attempts) > 2
    /\ raw_dates[Len(raw_dates)].index = possible_dates[Processed].index

\* C7: an annotation is emitted for a raw date only when the classifier's
\* probability for it is at least the threshold, and carries that
\* probability as its score
C7_AnnotationsPassThreshold ==
    /\ Len(annotations) <= Len(scored)
    /\ \A a \in 1..Len(annotations) :
          /\ annotations[a].score >= threshold
          /\ \E r \in 1..Len(scored) :
                /\ raw_dates[r].index = annotations[a].coords
                /\ scored[r] = annotations[a].score
                /\ raw_dates[r].date = annotations[a].date
    /\ \A r \in 1..Len(scored) :
          scored[r] < threshold
              => \A a \in 1..Len(annotations) : annotations[a].coords # raw_dates[r].index

\* One raw date was annotated with a score equal to the threshold and another
\* was scored below the threshold and not annotated
C7_Witness ==
    /\ Len(scored) = 2
    /\ Len(annotations) = 1
    /\ annotations[1].score = threshold
    /\ \E r \in 1..2 : scored[r] < threshold

\* A candidate without a digit, a month or a day-of-week token
NoEvidence(props) == props.digits = <<>> /\ props.months = <<>> /\ props.days = <<>>

\* C8: a candidate without digit, month and day-of-week token is rejected
\* before any call of parse_date_string; a text with only such candidates
\* yields no date and no annotation
C8_NoEvidenceIsRejectedUnparsed ==
    /\ \A n \in 1..Processed :
          NoEvidence(located[n].props)
              => /\ n <= Len(possible_matched) /\ ~ possible_matched[n]
                 /\ n = Processed => attempts = <<>> /\ pc # "raised"
    /\ (\A k \in 1..Len(located) : NoEvidence(located[k].props))
          => raw_dates = <<>> /\ annotations = <<>>

\* Such a candidate, which the day-of merge has given a digit modifier, has
\* just been rejected
C8_Witness ==
    /\ pc = "continue"
    /\ Processed = 2
    /\ NoEvidence(located[2].props)
    /\ merged[2]
    /\ possible_dates[2].props.digits_modifier # <<>>
    /\ ~ possible_matched[2]

\* The sum of the values <<n, d>> of the keys of a list is 1
RECURSIVE Numerators(_, _)
Numerators(vec, keys) ==
    IF keys = <<>> THEN 0 ELSE vec[keys[1]][1] + Numerators(vec, Tail(keys))

SumIsOne(vec, keys) ==
    /\ keys # <<>>
    /\ \A k \in 1..Len(keys) : vec[keys[k]][2] = vec[keys[1]][2]
    /\ Numerators(vec, keys) = vec[keys[1]][2]

AllZero(vec, keys) == \A k \in 1..Len(keys) : vec[keys[k]][1] = 0

\* The context window of the features computed
ContextWindow == FeatureText(text, span[1], span[2], options.window)

\* C9: with normalization the char_* values sum to 1 when the context window
\* holds a tracked character and are all 0 otherwise, and so do the bigram_*
\* values, by their own sum, for the tracked bigrams
C9_GroupsNormalisedSeparately ==
    (featured /\ options.norm) =>
        LET char_keys == CharKeys(Characters)
            bigram_keys == BigramKeys(BigramSet(Characters, 1))
        IN  /\ IF \E k \in 1..Len(ContextWindow) : ContextWindow[k] \in Range(Characters)
               THEN SumIsOne(char_vec, char_keys)
               ELSE AllZero(char_vec, char_keys)
            /\ options.include_bigrams =>
                  IF \E k \in 1..(Len(ContextWindow) - 1) :
                        /\ ContextWindow[k] \in Range(Characters)
                        /\ ContextWindow[k + 1] \in Range(Characters)
                        /\ ContextWindow[k] # ContextWindow[k + 1]
                  THEN SumIsOne(char_vec, bigram_keys)
                  ELSE AllZero(char_vec, bigram_keys)

\* Normalized features of a window with tracked characters and tracked
\* bigrams, whose sums differ
C9_Witness ==
    /\ featured /\ options.norm /\ options.include_bigrams
    /\ char_vec["char_1"] = <<2, 3>>
    /\ char_vec["bigram_1 "] = <<1, 2>>

\* C10: the history holds i entries when a pass of the loop begins on
\* candidate i and one more when the pass has ended without raising; the
\* entry is True exactly for a candidate whose date is yielded, and is there
\* when the generator is suspended at the yield
C10_HistoryAlignedWithCandidates ==
    /\ pc \in {"loop", "done", "raised"} => Len(possible_matched) = i
    /\ pc \in {"continue", "yield"} => Len(possible_matched) = i + 1
    /\ pc = "yield" =>
          /\ possible_matched[i + 1]
          /\ raw_dates # <<>>
          /\ raw_dates[Len(raw_dates)].index = possible_dates[i + 1].index
    /\ pc = "continue" => ~ possible_matched[i + 1]
    /\ \A k \in 1..Len(possible_matched) :
          possible_matched[k]
              <=> \E r \in 1..Len(raw_dates) : raw_dates[r].index = possible_dates[k].index
    /\ Len(raw_dates) = Cardinality({k \in 1..Len(possible_matched) : possible_matched[k]})

\* A date is yielded for the candidate after a rejected one
C10_Witness ==
    /\ pc = "yield"
    /\ i >= 1
    /\ ~ possible_matched[i]
    /\ possible_matched[i + 1]

\* The number of candidates among the first k that the history records as
\* accepted
AcceptedUpTo(k) == Cardinality({q \in 1..k : possible_matched[q]})

\* The number of raw dates among the first r whose score passed the threshold
AnnotatedUpTo(r) == Cardinality({q \in 1..r : scored[q] >= threshold})

\* C11: get_raw_dates yields at most one (date, span) pair per candidate, in
\* the order of the candidates: the r-th pair carries the span that the
\* locator gave the r-th accepted candidate, which the day-of merge, the
\* cleanup and the trimming leave as it was; the annotations come in that
\* order with those spans as coordinates: the a-th annotation carries the
\* span and the date of the a-th raw date whose score passed the threshold
C11_PairsAndAnnotationsKeepOrderAndSpans ==
    /\ Len(possible_dates) = Len(located)
    /\ \A k \in 1..Len(possible_dates) : possible_dates[k].index = located[k].index
    /\ Len(raw_dates) = AcceptedUpTo(Len(possible_matched))
    /\ \A r \in 1..Len(raw_dates) :
          \E k \in 1..Len(possible_matched) :
              /\ possible_matched[k]
              /\ AcceptedUpTo(k) = r
              /\ raw_dates[r].index = located[k].index
    /\ Len(annotations) = AnnotatedUpTo(Len(scored))
    /\ \A a \in 1..Len(annotations) :
          \E r \in 1..Len(scored) :
              /\ scored[r] >= threshold
              /\ AnnotatedUpTo(r) = a
              /\ annotations[a].coords = raw_dates[r].index
              /\ annotations[a].date = raw_dates[r].date

\* The only annotation of a text is for its second candidate, whose digit
\* modifiers the day-of merge and whose extra tokens the cleanup have changed,
\* and has the span that the locator gave that candidate
C11_Witness ==
    /\ pc = "loop"
    /\ i = 2
    /\ merged[2]
    /\ possible_dates[2].props.digits_modifier # located[2].props.digits_modifier
    /\ located[2].props.extra_tokens # <<>>
    /\ possible_dates[2].props.extra_tokens = <<>>
    /\ Len(raw_dates) = 1
    /\ Len(annotations) = 1
    /\ annotations[1].coords = located[2].index
    /\ annotations[1].coords = <<50, 61>>

====
